---- MODULE Spec2Model ----
(***************************************************************************)
(* Perfume Store AI Bot (src/bot.py): the catalog loaded once at startup   *)
(* from training_data.json and the request handlers that run over it.      *)
(* Python strings are TLA+ strings; a Python dict is a record whose DOMAIN *)
(* is the set of keys present.  Prices are kept in cents and formatted the *)
(* way Python prints the float; confidences are kept in tenths.  The emoji *)
(* of the reply templates are written as :name: since they are not ASCII.  *)
(***************************************************************************)
EXTENDS Integers, Sequences, FiniteSets, TLC

-----------------------------------------------------------------------------
(* Python str operations used by the bot *)

UpperLetters == "ABCDEFGHIJKLMNOPQRSTUVWXYZ"

LowerLetters == "abcdefghijklmnopqrstuvwxyz"

Digits == "0123456789"

Whitespace == {" ", "\n", "\t"}

CharAt(s, i) == SubSeq(s, i, i)

UpperChars == { CharAt(UpperLetters, i) : i \in 1..Len(UpperLetters) }

LowerChars == { CharAt(LowerLetters, i) : i \in 1..Len(LowerLetters) }

(* the lower-case form of each upper-case letter, and the converse *)
LowerOf ==
    [c \in UpperChars |->
        CharAt(LowerLetters,
               CHOOSE i \in 1..Len(UpperLetters) : CharAt(UpperLetters, i) = c)]

UpperOf ==
    [c \in LowerChars |->
        CharAt(UpperLetters,
               CHOOSE i \in 1..Len(LowerLetters) : CharAt(LowerLetters, i) = c)]

IsCased(c) == c \in UpperChars \/ c \in LowerChars

lowerChar(c) == IF c \in UpperChars THEN LowerOf[c] ELSE c

upperChar(c) == IF c \in LowerChars THEN UpperOf[c] ELSE c

RECURSIVE LowerFrom(_, _)
(* s[i..] lower-cased *)
LowerFrom(s, i) ==
    IF i > Len(s) THEN "" ELSE lowerChar(CharAt(s, i)) \o LowerFrom(s, i + 1)

(* str.lower() *)
lower(s) == LowerFrom(s, 1)

RECURSIVE TitleFrom(_, _)
(* s[i..] title-cased: a cased character is upper-cased when the character *)
(* before it is not cased (or there is none) and lower-cased otherwise     *)
TitleFrom(s, i) ==
    IF i > Len(s) THEN ""
    ELSE (IF i > 1 /\ IsCased(CharAt(s, i - 1))
          THEN lowerChar(CharAt(s, i))
          ELSE upperChar(CharAt(s, i))) \o TitleFrom(s, i + 1)

(* str.title() *)
title(s) == TitleFrom(s, 1)

(* Python's `sub in s` for strings *)
In(sub, s) ==
    \E i \in 1..(Len(s) - Len(sub) + 1) : SubSeq(s, i, i + Len(sub) - 1) = sub

RECURSIVE SplitFrom(_, _, _)
(* the words of s[i..], cur being the word under construction *)
SplitFrom(s, i, cur) ==
    IF i > Len(s)
    THEN (IF cur = "" THEN << >> ELSE <<cur>>)
    ELSE IF CharAt(s, i) \in Whitespace
         THEN (IF cur = "" THEN << >> ELSE <<cur>>) \o SplitFrom(s, i + 1, "")
         ELSE SplitFrom(s, i + 1, cur \o CharAt(s, i))

(* str.split() with no argument: runs of whitespace separate, no empty word *)
split(s) == SplitFrom(s, 1, "")

(* seq[:n] *)
Slice(seq, n) == SubSeq(seq, 1, IF Len(seq) < n THEN Len(seq) ELSE n)

RECURSIVE join(_, _)
(* sep.join(seq) *)
join(sep, seq) ==
    IF seq = << >> THEN ""
    ELSE IF Len(seq) = 1 THEN seq[1]
    ELSE seq[1] \o sep \o join(sep, Tail(seq))

(* dict.get(key, default) *)
get(d, key, default) == IF key \in DOMAIN d THEN d[key] ELSE default

RECURSIVE NatToStr(_)
NatToStr(n) ==
    IF n < 10 THEN CharAt(Digits, n + 1)
    ELSE NatToStr(n \div 10) \o CharAt(Digits, (n % 10) + 1)

(* f"{price}" for a float price with at most two decimals, given in cents: *)
(* Python prints the shortest decimal, so 45.99 -> 45.99, 45.50 -> 45.5,   *)
(* 45.00 -> 45.0                                                           *)
FormatPrice(cents) ==
    NatToStr(cents \div 100) \o "." \o
    (IF cents % 10 = 0
     THEN NatToStr((cents % 100) \div 10)
     ELSE NatToStr((cents % 100) \div 10) \o NatToStr(cents % 10))

-----------------------------------------------------------------------------
(* Catalog data that the source files spell out *)

(* the built-in products returned when training_data.json is missing *)
DefaultPerfumes ==
    <<[id |-> 1, name |-> "Floral Dream", price |-> 4599, category |-> "floral"],
      [id |-> 2, name |-> "Woody Essence", price |-> 5999, category |-> "woody"],
      [id |-> 3, name |-> "Citrus Splash", price |-> 3999, category |-> "citrus"]>>

(* training_data of sample_training.py, which that script writes to        *)
(* training_data.json                                                      *)
SamplePerfume1 ==
    [name |-> "Floral Dream",
     category |-> "floral",
     notes |-> <<"Rose", "Jasmine", "Lily", "Peony">>,
     price |-> 4599,
     description |-> "A delicate floral bouquet perfect for daytime wear",
     questions |-> <<"What is Floral Dream?",
                    "Tell me about Floral Dream",
                    "Describe Floral Dream perfume",
                    "What does Floral Dream smell like?">>,
     answers |-> <<"Floral Dream is a delicate floral bouquet with notes of Rose, Jasmine, Lily, and Peony. Perfect for daytime wear.",
                  "It's a floral fragrance priced at $45.99, featuring Rose, Jasmine, Lily, and Peony notes.",
                  "This perfume is a floral scent with Rose, Jasmine, Lily, and Peony notes. Great for spring and daytime events.">>]

SamplePerfume2 ==
    [name |-> "Woody Essence",
     category |-> "woody",
     notes |-> <<"Sandalwood", "Cedar", "Patchouli", "Vetiver">>,
     price |-> 5999,
     description |-> "Rich woody fragrance with warm undertones",
     questions |-> <<"What is Woody Essence?",
                    "Tell me about woody perfumes",
                    "Describe Woody Essence",
                    "What are woody perfumes?">>,
     answers |-> <<"Woody Essence is a rich woody fragrance with Sandalwood, Cedar, Patchouli, and Vetiver notes. Priced at $59.99.",
                  "It's a woody perfume with warm undertones, featuring Sandalwood, Cedar, Patchouli, and Vetiver.",
                  "This is a unisex woody fragrance perfect for evening wear, priced at $59.99.">>]

SampleFaqs ==
    <<[question |-> "How long does perfume last?",
       answer |-> "Perfume longevity depends on concentration: Eau de Toilette lasts 3-4 hours, Eau de Parfum lasts 4-6 hours, and Parfum lasts 8+ hours."],
      [question |-> "What's the difference between EDP and EDT?",
       answer |-> "EDP (Eau de Parfum) has 15-20% fragrance oil and lasts longer. EDT (Eau de Toilette) has 5-15% oil and is lighter."],
      [question |-> "How should I store perfume?",
       answer |-> "Store perfume in a cool, dark place away from direct sunlight and temperature changes to preserve its scent."]>>

SampleIntents ==
    <<[name |-> "greeting",
       patterns |-> <<"hello", "hi", "hey", "good morning", "good afternoon", "greetings">>,
       responses |-> <<"Hello! Welcome to our perfume store! How can I help you today?",
                      "Hi there! Looking for a new fragrance today?",
                      "Welcome! I'm here to help you find the perfect perfume.">>],
      [name |-> "recommendation",
       patterns |-> <<"recommend a perfume", "suggest a fragrance", "what should I buy", "help me choose", "what perfume is best", "can you recommend">>,
       responses |-> <<"I'd be happy to recommend a perfume! What type of scents do you prefer?",
                      "Let me suggest some fragrances for you. Do you like floral, woody, or citrus scents?",
                      "I can help you choose! Tell me about your scent preferences.">>],
      [name |-> "price_inquiry",
       patterns |-> <<"how much is", "price of", "cost", "what's the price", "how expensive is", "price for">>,
       responses |-> <<"I can check the price for you. Which perfume are you interested in?",
                      "Let me look up the price. Which fragrance would you like to know about?",
                      "I'll check the cost for you. What's the name of the perfume?">>],
      [name |-> "category_query",
       patterns |-> <<"floral perfumes", "woody fragrances", "citrus scents", "show me floral", "what woody perfumes", "oriental perfumes">>,
       responses |-> <<"Let me show you those perfumes. Here's what we have in that category...",
                      "I'll find those fragrances for you. Let me check our collection.",
                      "Here are the perfumes in that category that we offer.">>]>>

SampleTrainingData ==
    [perfumes |-> <<SamplePerfume1, SamplePerfume2>>,
     faqs |-> SampleFaqs,
     intents |-> SampleIntents]

-----------------------------------------------------------------------------
(* State *)

VARIABLES
    source,     \* training_data.json as the process finds it at startup
    pc,         \* "start", "ready" (serving), "replied", "crashed"
    PERFUMES,   \* module globals bound by load_training_data()
    FAQS,
    INTENTS,
    request,    \* the call being served
    result      \* what the call returned

vars == <<source, pc, PERFUMES, FAQS, INTENTS, request, result>>

-----------------------------------------------------------------------------
(* load_training_data *)

(* for i, perfume in enumerate(perfumes): if 'id' not in perfume:          *)
(*     perfume['id'] = i + 1          (i counts from 0, TLA+ indices from 1) *)
AddIds(perfumes) ==
    [n \in 1..Len(perfumes) |->
        LET perfume == perfumes[n]
            i == n - 1
        IN  IF "id" \notin DOMAIN perfume
            THEN [k \in DOMAIN perfume \cup {"id"} |->
                    IF k = "id" THEN i + 1 ELSE perfume[k]]
            ELSE perfume]

(* src.kind: "missing" (open raises FileNotFoundError), "invalid_json"     *)
(* (json.load raises JSONDecodeError), or the type of the top-level JSON   *)
(* value: "object" (a dict, src.members) or "array", "string", "number",   *)
(* "null" (values without a .get method: data.get raises AttributeError,   *)
(* which no except clause catches).                                         *)
load_training_data(src) ==
    CASE src.kind = "missing" ->
            [raised |-> "", perfumes |-> DefaultPerfumes,
             faqs |-> << >>, intents |-> << >>]
      [] src.kind = "invalid_json" ->
            [raised |-> "", perfumes |-> << >>,
             faqs |-> << >>, intents |-> << >>]
      [] src.kind = "object" ->
            [raised |-> "",
             perfumes |-> AddIds(get(src.members, "perfumes", << >>)),
             faqs |-> get(src.members, "faqs", << >>),
             intents |-> get(src.members, "intents", << >>)]
      [] OTHER ->
            [raised |-> "AttributeError", perfumes |-> << >>,
             faqs |-> << >>, intents |-> << >>]

-----------------------------------------------------------------------------
(* PerfumeAI: self.perfumes, self.faqs and self.intents are the globals *)

(* any(word in s for word in words) *)
AnyIn(words, s) == \E k \in 1..Len(words) : In(words[k], s)

(* `for x in seq: if <test>: return ...`: given the outcome of the test for *)
(* each element, the index of the first element passing it, 0 when none   *)
(* passes                                                                  *)
FirstIndex(tests) ==
    IF \E i \in 1..Len(tests) : tests[i]
    THEN CHOOSE i \in 1..Len(tests) :
            tests[i] /\ \A j \in 1..(i - 1) : ~tests[j]
    ELSE 0

GreetingWords == <<"hi", "hello", "hey">>

RecommendWords == <<"recommend", "suggest">>

PriceWords == <<"price", "how much", "cost">>

CategoryWords == <<"floral", "woody", "citrus", "fresh", "oriental">>

(* the fallback intent detection of find_intent *)
FallbackIntent(msg_lower) ==
    IF AnyIn(GreetingWords, msg_lower) THEN "greeting"
    ELSE IF AnyIn(RecommendWords, msg_lower) THEN "recommendation"
    ELSE IF AnyIn(PriceWords, msg_lower) THEN "price_inquiry"
    ELSE IF AnyIn(CategoryWords, msg_lower) THEN "category_query"
    ELSE "unknown"

(* find_intent with the built-in keyword ladder consulted before the stored *)
(* intent definitions                                                      *)
find_intent_LadderFirst(message) ==
    LET msg_lower == lower(message)
        Hit(intent) ==
            LET patterns == get(intent, "patterns", << >>)
            IN  \E k \in 1..Len(patterns) : In(lower(patterns[k]), msg_lower)
        i == FirstIndex([n \in 1..Len(INTENTS) |-> Hit(INTENTS[n])])
    IN  IF FallbackIntent(msg_lower) # "unknown" THEN FallbackIntent(msg_lower)
        ELSE IF i # 0 THEN get(INTENTS[i], "name", "unknown")
        ELSE "unknown"

find_intent(message) ==
    LET msg_lower == lower(message)
        Hit(intent) ==
            LET patterns == get(intent, "patterns", << >>)
            IN  \E k \in 1..Len(patterns) : In(lower(patterns[k]), msg_lower)
        i == FirstIndex([n \in 1..Len(INTENTS) |-> Hit(INTENTS[n])])
    IN  IF i # 0 THEN get(INTENTS[i], "name", "unknown")
        ELSE FallbackIntent(msg_lower)

(* Optional values: << >> is None, <<v>> is the value v *)
None == << >>

(* `if x:` for an Optional[str] *)
TruthyStr(x) == x # None /\ x[1] # ""

(* `if x:` for an Optional[Dict] *)
TruthyDict(x) == x # None /\ DOMAIN x[1] # {}

(* answer_faq returns faq.get('answer') of the first matching FAQ: None    *)
(* when that FAQ has no answer                                             *)
answer_faq(question) ==
    LET question_lower == lower(question)
        Hit(faq) ==
            LET faq_question == lower(get(faq, "question", ""))
            IN  AnyIn(Slice(split(faq_question), 3), question_lower)
        i == FirstIndex([n \in 1..Len(FAQS) |-> Hit(FAQS[n])])
    IN  IF i # 0 /\ "answer" \in DOMAIN FAQS[i] THEN <<FAQS[i].answer>>
        ELSE None

(* find_perfume with the category phase run before the name phase *)
find_perfume_CategoryFirst(query) ==
    LET query_lower == lower(query)
        ByName(perfume) == In(lower(get(perfume, "name", "")), query_lower)
        ByCategory(perfume) ==
            In(lower(get(perfume, "category", "")), query_lower)
        ByNotes(perfume) ==
            LET notes == get(perfume, "notes", << >>)
            IN  \E k \in 1..Len(notes) : In(lower(notes[k]), query_lower)
        a == FirstIndex([n \in 1..Len(PERFUMES) |-> ByName(PERFUMES[n])])
        b == FirstIndex([n \in 1..Len(PERFUMES) |-> ByCategory(PERFUMES[n])])
        c == FirstIndex([n \in 1..Len(PERFUMES) |-> ByNotes(PERFUMES[n])])
    IN  IF b # 0 THEN <<PERFUMES[b]>>
        ELSE IF a # 0 THEN <<PERFUMES[a]>>
        ELSE IF c # 0 THEN <<PERFUMES[c]>>
        ELSE None

(* find_perfume without its category phase *)
find_perfume_NoCategoryPhase(query) ==
    LET query_lower == lower(query)
        ByName(perfume) == In(lower(get(perfume, "name", "")), query_lower)
        ByNotes(perfume) ==
            LET notes == get(perfume, "notes", << >>)
            IN  \E k \in 1..Len(notes) : In(lower(notes[k]), query_lower)
        a == FirstIndex([n \in 1..Len(PERFUMES) |-> ByName(PERFUMES[n])])
        c == FirstIndex([n \in 1..Len(PERFUMES) |-> ByNotes(PERFUMES[n])])
    IN  IF a # 0 THEN <<PERFUMES[a]>>
        ELSE IF c # 0 THEN <<PERFUMES[c]>>
        ELSE None

find_perfume(query) ==
    LET query_lower == lower(query)
        ByName(perfume) == In(lower(get(perfume, "name", "")), query_lower)
        ByCategory(perfume) ==
            In(lower(get(perfume, "category", "")), query_lower)
        ByNotes(perfume) ==
            LET notes == get(perfume, "notes", << >>)
            IN  \E k \in 1..Len(notes) : In(lower(notes[k]), query_lower)
        a == FirstIndex([n \in 1..Len(PERFUMES) |-> ByName(PERFUMES[n])])
        b == FirstIndex([n \in 1..Len(PERFUMES) |-> ByCategory(PERFUMES[n])])
        c == FirstIndex([n \in 1..Len(PERFUMES) |-> ByNotes(PERFUMES[n])])
    IN  IF a # 0 THEN <<PERFUMES[a]>>
        ELSE IF b # 0 THEN <<PERFUMES[b]>>
        ELSE IF c # 0 THEN <<PERFUMES[c]>>
        ELSE None

GreetingResponses ==
    <<":wave: Hello! Welcome to our perfume store! How can I help you today?",
      ":star2: Welcome to our fragrance boutique! What scent are you looking for?",
      ":cherry_blossom: Hello there! Ready to find your perfect fragrance?">>

FallbackResponses ==
    <<"I'm not sure I understood. Try asking about specific perfumes or categories.",
      "Could you be more specific? For example, ask about 'Floral Dream' or 'woody perfumes'.",
      "I'm here to help you find perfumes! Try asking for recommendations or checking prices.">>

Min(a, b) == IF a < b THEN a ELSE b

(* random.sample(population, k): k elements at distinct positions, in any *)
(* order                                                                   *)
Samples(population, k) ==
    { [j \in 1..k |-> population[pos[j]]] :
        pos \in { q \in [1..k -> 1..Len(population)] :
                    \A x, y \in 1..k : x # y => q[x] # q[y] } }

(* the card of step 2 of generate_response *)
PerfumeCard(perfume) ==
    "**" \o perfume.name \o "**\n\n"
    \o ":moneybag: Price: $" \o FormatPrice(perfume.price) \o "\n"
    \o (IF "category" \in DOMAIN perfume
        THEN ":cherry_blossom: Category: " \o title(perfume.category) \o "\n"
        ELSE "")
    \o (IF "notes" \in DOMAIN perfume /\ perfume.notes # << >>
        THEN ":ribbon: Notes: " \o join(", ", Slice(perfume.notes, 3)) \o "\n"
        ELSE "")
    \o (IF "description" \in DOMAIN perfume
        THEN "\n" \o perfume.description
        ELSE "")

RecommendationText(recommended) ==
    LET Line(perfume) ==
            ":star: **" \o perfume.name \o "** - $"
            \o FormatPrice(perfume.price) \o "\n"
            \o (IF "description" \in DOMAIN perfume
                THEN "   " \o perfume.description \o "\n\n"
                ELSE "")
    IN  ":sparkles: **Top Recommendations:**\n\n" \o join("", [n \in 1..Len(recommended) |-> Line(recommended[n])])

PriceText(perfumes) ==
    LET Line(perfume) ==
            ":bullet: " \o perfume.name \o ": $"
            \o FormatPrice(perfume.price) \o "\n"
    IN  ":moneybag: **Our Perfume Prices:**\n\n" \o join("", [n \in 1..Len(perfumes) |-> Line(perfumes[n])])

CategoryText(mentioned_category, filtered) ==
    LET Line(perfume) ==
            ":bullet: **" \o perfume.name \o "** - $"
            \o FormatPrice(perfume.price) \o "\n"
    IN  ":cherry_blossom: **" \o title(mentioned_category) \o " Perfumes:**\n\n"
        \o join("", [n \in 1..Len(filtered) |-> Line(filtered[n])])

(* the fallback reply with a confidence of 0.5 *)
FallbackResult_Confidence5 ==
    { [response |-> FallbackResponses[k], type |-> "fallback", confidence |-> 5] :
        k \in 1..Len(FallbackResponses) }

(* step 4 of generate_response *)
FallbackResult ==
    { [response |-> FallbackResponses[k], type |-> "fallback", confidence |-> 3] :
        k \in 1..Len(FallbackResponses) }

(* steps 3 and 4 of generate_response: the intent branches, each falling  *)
(* through to the fallback when it does not return                         *)
HandleIntent(message) ==
    LET intent == find_intent(message)
    IN  IF intent = "greeting"
        THEN { [response |-> GreetingResponses[k], type |-> "greeting",
                confidence |-> 9] : k \in 1..Len(GreetingResponses) }
        ELSE IF intent = "recommendation"
        THEN IF PERFUMES # << >>
             THEN { [response |-> RecommendationText(recommended),
                     type |-> "recommendation", confidence |-> 8,
                     perfumes |-> recommended] :
                       recommended \in Samples(PERFUMES, Min(3, Len(PERFUMES))) }
             ELSE FallbackResult
        ELSE IF intent = "price_inquiry"
        THEN IF PERFUMES # << >>
             THEN { [response |-> PriceText(Slice(PERFUMES, 5)),
                     type |-> "price_info", confidence |-> 7] }
             ELSE FallbackResult
        ELSE IF intent = "category_query"
        THEN LET m == FirstIndex([n \in 1..Len(CategoryWords) |->
                                    In(CategoryWords[n], lower(message))])
                 mentioned_category == CategoryWords[m]
                 filtered == SelectSeq(PERFUMES,
                                LAMBDA p : "category" \in DOMAIN p
                                           /\ p.category = mentioned_category)
             IN  IF m # 0 /\ filtered # << >>
                 THEN { [response |-> CategoryText(mentioned_category, filtered),
                         type |-> "category_info", confidence |-> 8] }
                 ELSE FallbackResult
        ELSE FallbackResult

(* generate_response with steps 2 and 3 exchanged: a recognised intent is *)
(* handled before the Entity Matcher is asked                              *)
generate_response_IntentFirst(message) ==
    LET faq_answer == answer_faq(message)
        perfume == find_perfume(message)
    IN  IF TruthyStr(faq_answer)
        THEN { [response |-> faq_answer[1], type |-> "faq", confidence |-> 9] }
        ELSE IF find_intent(message) # "unknown"
        THEN HandleIntent(message)
        ELSE IF TruthyDict(perfume)
        THEN { [response |-> PerfumeCard(perfume[1]), type |-> "perfume_info",
                confidence |-> 8, perfume |-> perfume[1]] }
        ELSE FallbackResult

(* the set of values generate_response(message) can return; confidence is *)
(* in tenths (9 is 0.9)                                                    *)
generate_response(message) ==
    LET faq_answer == answer_faq(message)
        perfume == find_perfume(message)
    IN  IF TruthyStr(faq_answer)
        THEN { [response |-> faq_answer[1], type |-> "faq", confidence |-> 9] }
        ELSE IF TruthyDict(perfume)
        THEN { [response |-> PerfumeCard(perfume[1]), type |-> "perfume_info",
                confidence |-> 8, perfume |-> perfume[1]] }
        ELSE HandleIntent(message)

-----------------------------------------------------------------------------
(* Helper function and endpoints *)

(* list(set(...)): the elements of S in an order the build chooses *)
ListOfSet(S) ==
    { q \in [1..Cardinality(S) -> S] :
        \A x, y \in 1..Cardinality(S) : x # y => q[x] # q[y] }

(* p.get('category') is truthy *)
HasCategory(p) == "category" \in DOMAIN p /\ p.category # ""

(* the products p of seq with p.get('category') truthy *)
WithCategory(seq) == SelectSeq(seq, HasCategory)

(* the elements of a list, as a set *)
Range(seq) == { seq[k] : k \in 1..Len(seq) }

(* get_suggestions with the words of the message tested before the *)
(* response type                                                   *)
get_suggestions_WordsFirst(response_type, message) ==
    LET msg_lower == lower(message)
    IN  IF AnyIn(RecommendWords, msg_lower)
        THEN { Slice(categories, 3) \o <<"Show all", "Prices">> :
                 categories \in ListOfSet({ title(p.category) :
                                              p \in Range(WithCategory(PERFUMES)) }) }
        ELSE IF AnyIn(PriceWords, msg_lower)
        THEN { [n \in 1..Len(Slice(PERFUMES, 3)) |-> Slice(PERFUMES, 3)[n].name]
               \o <<"All prices", "Budget options">> }
        ELSE IF response_type = "perfume_info"
        THEN { <<"Similar perfumes", "Price range", "Show all", "Recommendations">> }
        ELSE IF response_type = "faq"
        THEN { <<"More FAQs", "Perfume catalog", "Contact support">> }
        ELSE { <<"Recommend perfume", "Show all", "FAQs", "Help">> }

(* the set of lists get_suggestions(response_type, message) can return *)
get_suggestions(response_type, message) ==
    LET msg_lower == lower(message)
    IN  IF response_type = "perfume_info"
        THEN { <<"Similar perfumes", "Price range", "Show all", "Recommendations">> }
        ELSE IF response_type = "faq"
        THEN { <<"More FAQs", "Perfume catalog", "Contact support">> }
        ELSE IF AnyIn(RecommendWords, msg_lower)
        THEN { Slice(categories, 3) \o <<"Show all", "Prices">> :
                 categories \in ListOfSet({ title(p.category) :
                                              p \in Range(WithCategory(PERFUMES)) }) }
        ELSE IF AnyIn(PriceWords, msg_lower)
        THEN { [n \in 1..Len(Slice(PERFUMES, 3)) |-> Slice(PERFUMES, 3)[n].name]
               \o <<"All prices", "Budget options">> }
        ELSE { <<"Recommend perfume", "Show all", "FAQs", "Help">> }

(* POST /chat: the ChatResponse bodies the handler can return (its         *)
(* timestamp, the wall clock, is left out), each with the ai_result it was *)
(* built from                                                              *)
chat(message) ==
    UNION { { [ai_result |-> ai_result,
               status |-> 200,
               body |-> [response |-> ai_result.response,
                         suggestions |-> suggestions,
                         confidence |-> ai_result.confidence]] :
                suggestions \in get_suggestions(ai_result.type, message) } :
            ai_result \in generate_response(message) }

(* GET /perfumes/{perfume_id} *)
get_perfume(perfume_id) ==
    LET i == FirstIndex([n \in 1..Len(PERFUMES) |-> PERFUMES[n].id = perfume_id])
        perfume == IF i # 0 THEN <<PERFUMES[i]>> ELSE None
    IN  IF TruthyDict(perfume)
        THEN [status |-> 200, body |-> perfume[1]]
        ELSE [status |-> 404, detail |-> "Perfume not found"]

(* GET /categories: the bodies the handler can return *)
get_categories ==
    { [categories |->
         LET kept == SelectSeq(categories, LAMBDA c : c # "")
         IN  [n \in 1..Len(kept) |-> title(kept[n])]] :
        categories \in ListOfSet({ get(p, "category", "") :
                                     p \in Range(WithCategory(PERFUMES)) }) }

(* GET /perfumes *)
get_perfumes == PERFUMES

(* GET /health, without its timestamp *)
health_check == [status |-> "healthy", perfumes_loaded |-> Len(PERFUMES) > 0]

-----------------------------------------------------------------------------
(* Inputs *)

MaxEntries == 2     \* products, FAQs and intents in training_data.json, in all

MaxWords == 2       \* words of a composed message

RECURSIVE SeqsUpTo(_, _)
(* the sequences over S of length at most n *)
SeqsUpTo(S, n) ==
    IF n = 0 THEN { << >> }
    ELSE LET shorter == SeqsUpTo(S, n - 1)
         IN  shorter \cup { Append(q, x) : q \in shorter, x \in S }

ProductPool ==
    { [name |-> "Floral Dream", price |-> 4599, category |-> "floral"],
      SamplePerfume2,
      [name |-> "Dream", price |-> 4550, category |-> "Floral",
       notes |-> <<"Rose", "Musk">>],
      [name |-> "Rose Water", price |-> 3000, category |-> ""],
      [id |-> 2, name |-> "Citrus Splash", price |-> 3999, category |-> "citrus",
       notes |-> <<"Dream">>, description |-> "A bright citrus scent"] }

FaqPool ==
    { SampleFaqs[1],
      SampleFaqs[3],
      [question |-> "Price match policy?", answer |-> ""] }

IntentPool ==
    { SampleIntents[1],
      SampleIntents[3],
      [name |-> "product_query", patterns |-> <<"Dream", "recommend">>,
       responses |-> <<"Which perfume?">>] }

(* the catalogs of at most n entries in all *)
Catalogs(n) ==
    { c \in UNION { { [perfumes |-> p, faqs |-> f, intents |-> i] :
                        f \in SeqsUpTo(FaqPool, n - Len(p)),
                        i \in SeqsUpTo(IntentPool, n - Len(p)) } :
                    p \in SeqsUpTo(ProductPool, n) } :
        Len(c.perfumes) + Len(c.faqs) + Len(c.intents) <= n }

(* the catalog c written without the keys of the empty collections *)
WithoutEmptyKeys(c) ==
    [k \in { j \in DOMAIN c : c[j] # << >> } |-> c[k]]

(* training_data.json as the process can find it: missing, not JSON, JSON *)
(* whose top level is not an object, or an object holding a catalog (the   *)
(* smallest ones also with the keys of empty collections left out)         *)
Sources ==
    { [kind |-> k] : k \in {"missing", "invalid_json", "array", "string",
                             "number", "null"} }
    \cup { [kind |-> "object", members |-> SampleTrainingData] }
    \cup { [kind |-> "object", members |-> c] : c \in Catalogs(MaxEntries) }
    \cup { [kind |-> "object", members |-> WithoutEmptyKeys(c)] :
             c \in Catalogs(1) }

Vocabulary == {"floral", "Dream", "how", "price", "ROSE"}

Messages ==
    { "how much is Floral Dream", "recommend something", "hello", "recommend" }
    \cup { join(" ", ws) : ws \in SeqsUpTo(Vocabulary, MaxWords) }

PerfumeIds == 0..(MaxEntries + 1)

(* the response types get_suggestions is called with apart from /chat: *)
(* the two it has a rule for, and one it has none for, which no reply  *)
(* of generate_response carries                                        *)
ResponseTypes == { "faq", "perfume_info", "category_info" }

-----------------------------------------------------------------------------
(* The process: load once at import, then serve calls one at a time *)

NoRequest == [op |-> "none"]

Init ==
    /\ source \in Sources
    /\ pc = "start"
    /\ PERFUMES = << >>
    /\ FAQS = << >>
    /\ INTENTS = << >>
    /\ request = NoRequest
    /\ result = None

(* PERFUMES, FAQS, INTENTS = load_training_data(); an exception that       *)
(* escapes it ends the import, and with it the process                     *)
Startup ==
    /\ pc = "start"
    /\ LET loaded == load_training_data(source)
       IN  IF loaded.raised # ""
           THEN /\ pc' = "crashed"
                /\ UNCHANGED <<PERFUMES, FAQS, INTENTS>>
           ELSE /\ pc' = "ready"
                /\ PERFUMES' = loaded.perfumes
                /\ FAQS' = loaded.faqs
                /\ INTENTS' = loaded.intents
    /\ UNCHANGED <<source, request, result>>

(* a call with argument arg returning one of the values in results *)
Serve(op, arg, results) ==
    /\ pc = "ready"
    /\ pc' = "replied"
    /\ request' = [op |-> op, arg |-> arg]
    /\ result' \in results
    /\ UNCHANGED <<source, PERFUMES, FAQS, INTENTS>>

Chat == \E message \in Messages : Serve("chat", message, chat(message))

FindIntent ==
    \E message \in Messages :
        Serve("find_intent", message, { find_intent(message) })

AnswerFaq ==
    \E message \in Messages :
        Serve("answer_faq", message, { answer_faq(message) })

FindPerfume ==
    \E message \in Messages :
        Serve("find_perfume", message, { find_perfume(message) })

GetPerfume ==
    \E perfume_id \in PerfumeIds :
        Serve("get_perfume", perfume_id, { get_perfume(perfume_id) })

GetCategories == Serve("get_categories", "", get_categories)

GetPerfumes == Serve("get_perfumes", "", { get_perfumes })

HealthCheck == Serve("health_check", "", { health_check })

GetSuggestions ==
    \E response_type \in ResponseTypes, message \in Messages :
        Serve("get_suggestions", <<response_type, message>>,
              get_suggestions(response_type, message))

(* the reply has gone out; the process waits for the next call *)
Return ==
    /\ pc = "replied"
    /\ pc' = "ready"
    /\ request' = NoRequest
    /\ result' = None
    /\ UNCHANGED <<source, PERFUMES, FAQS, INTENTS>>

Next ==
    \/ Startup
    \/ Chat
    \/ FindIntent
    \/ AnswerFaq
    \/ FindPerfume
    \/ GetPerfume
    \/ GetCategories
    \/ GetPerfumes
    \/ HealthCheck
    \/ GetSuggestions
    \/ Return

Spec == Init /\ [][Next]_vars

-----------------------------------------------------------------------------
(* Properties *)

Replied(op) == pc = "replied" /\ request.op = op

Loaded == pc \in {"ready", "replied"}

(* the least element of a non-empty set of numbers *)
Least(S) == CHOOSE x \in S : \A y \in S : x <= y

(* one of the first three lower-cased words of the FAQ's question occurs *)
(* in the lower-cased input                                              *)
FaqMatches(faq, input) ==
    \E w \in { Slice(split(lower(faq.question)), 3)[k] :
                 k \in 1..Len(Slice(split(lower(faq.question)), 3)) } :
        In(w, lower(input))

FaqHits(input) == { i \in 1..Len(FAQS) : FaqMatches(FAQS[i], input) }

(* the products whose name, category, or some note occurs in the input, *)
(* compared case-insensitively                                          *)
NameHits(input) ==
    { i \in 1..Len(PERFUMES) : In(lower(PERFUMES[i].name), lower(input)) }

CategoryHits(input) ==
    { i \in 1..Len(PERFUMES) :
        In(lower(get(PERFUMES[i], "category", "")), lower(input)) }

NoteHits(input) ==
    { i \in 1..Len(PERFUMES) :
        \E k \in 1..Len(get(PERFUMES[i], "notes", << >>)) :
            In(lower(PERFUMES[i].notes[k]), lower(input)) }

EntityHits(input) == NameHits(input) \cup CategoryHits(input) \cup NoteHits(input)

(* C1: generate_response consults FAQ Matcher, Entity Matcher and Intent   *)
(* Classifier in that priority: when some FAQ matches the message the      *)
(* response has type faq and the first matching FAQ's answer as text; a    *)
(* product is used only when no FAQ matches; the intent is used only when  *)
(* no FAQ and no product matches.                                          *)
C1_PriorityChain ==
    Replied("chat") =>
        LET message == request.arg
            r == result.ai_result
        IN  /\ FaqHits(message) # {} =>
                /\ r.type = "faq"
                /\ r.response = FAQS[Least(FaqHits(message))].answer
            /\ r.type = "perfume_info" => FaqHits(message) = {}
            /\ r.type \notin {"faq", "perfume_info"} =>
                FaqHits(message) = {} /\ EntityHits(message) = {}

(* the first FAQ matching the input, if any, has an empty answer: the FAQ *)
(* Matcher gives generate_response nothing to reply with                 *)
NoFaqAnswer(input) ==
    FaqHits(input) # {} => FAQS[Least(FaqHits(input))].answer = ""

HowMuchIsFloralDream == "how much is Floral Dream"

HasFloralDream ==
    \E i \in 1..Len(PERFUMES) :
        PERFUMES[i].name = "Floral Dream" /\ PERFUMES[i].price = 4599

IsPerfumeInfoWithPrice(r) ==
    r.type = "perfume_info" /\ r.confidence = 8 /\ In("45.99", r.response)

(* C2 as stated: with any catalog holding "Floral Dream" priced 45.99, the *)
(* message "how much is Floral Dream" gets type perfume_info, confidence   *)
(* 0.8 and a text containing "45.99".                                      *)
C2_Original ==
    (Replied("chat") /\ request.arg = HowMuchIsFloralDream /\ HasFloralDream)
        => IsPerfumeInfoWithPrice(result.ai_result)

(* the product "Floral Dream" priced 45.99 is the first product of the     *)
(* catalog whose name occurs in the input                                  *)
FloralDreamFirstNamed(input) ==
    /\ NameHits(input) # {}
    /\ PERFUMES[Least(NameHits(input))].name = "Floral Dream"
    /\ PERFUMES[Least(NameHits(input))].price = 4599

(* C2 amended: the same reply is given whenever the FAQ Matcher yields no  *)
(* non-empty answer for the message and "Floral Dream" priced 45.99 is the *)
(* first product in catalog order whose name occurs in the message; the    *)
(* entity match then wins over the price_inquiry intent.                   *)
C2_Amended ==
    (/\ Replied("chat")
     /\ request.arg = HowMuchIsFloralDream
     /\ NoFaqAnswer(HowMuchIsFloralDream)
     /\ FloralDreamFirstNamed(HowMuchIsFloralDream))
        => IsPerfumeInfoWithPrice(result.ai_result)

(* a catalog with a FAQ and "Floral Dream" answers the message with the   *)
(* product card although the message classifies as price_inquiry          *)
C2_Witness ==
    /\ Replied("chat")
    /\ request.arg = HowMuchIsFloralDream
    /\ FAQS # << >>
    /\ NoFaqAnswer(HowMuchIsFloralDream)
    /\ FloralDreamFirstNamed(HowMuchIsFloralDream)
    /\ find_intent(HowMuchIsFloralDream) = "price_inquiry"
    /\ IsPerfumeInfoWithPrice(result.ai_result)

(* the identifiers that the products of the source carry are pairwise *)
(* distinct (products without one are to be given one by the loader)  *)
SourceIdsDistinct ==
    source.kind = "object" =>
        LET perfumes == get(source.members, "perfumes", << >>)
        IN  \A i, j \in 1..Len(perfumes) :
                (i # j /\ "id" \in DOMAIN perfumes[i] /\ "id" \in DOMAIN perfumes[j])
                    => perfumes[i].id # perfumes[j].id

(* C3: after load_training_data the identifiers of the products are        *)
(* pairwise distinct, whether the source products carry one or lack one,   *)
(* so GET /perfumes/{id} answers not-found exactly when no product has the *)
(* id and otherwise returns the one product having it.                     *)
C3_UniqueIds ==
    (Loaded /\ SourceIdsDistinct) =>
        /\ \A i, j \in 1..Len(PERFUMES) :
                i # j => PERFUMES[i].id # PERFUMES[j].id
        /\ Replied("get_perfume") =>
                LET holders == { i \in 1..Len(PERFUMES) :
                                    PERFUMES[i].id = request.arg }
                IN  /\ result.status = 404 <=> holders = {}
                    /\ result.status = 200 =>
                            /\ Cardinality(holders) = 1
                            /\ \A i \in holders : result.body = PERFUMES[i]

(* C4: GET /categories returns the title-cased form of every non-empty *)
(* category of the catalog and returns no value twice.                 *)
C4_Categories ==
    Replied("get_categories") =>
        LET categories == result.categories
        IN  /\ \A i \in 1..Len(PERFUMES) :
                    HasCategory(PERFUMES[i]) =>
                        \E k \in 1..Len(categories) :
                            categories[k] = title(PERFUMES[i].category)
            /\ \A x, y \in 1..Len(categories) :
                    x # y => categories[x] # categories[y]

(* C5: loading never fails: a missing source gives the built-in products *)
(* with no FAQs and no intents, a source that is not JSON or whose top   *)
(* level is not an object gives three empty collections, and the process *)
(* always comes up.                                                      *)
C5_LoadNeverFails ==
    pc # "start" =>
        /\ pc # "crashed"
        /\ source.kind = "missing" =>
                PERFUMES = DefaultPerfumes /\ FAQS = << >> /\ INTENTS = << >>
        /\ source.kind \in {"invalid_json", "array", "string", "number", "null"} =>
                PERFUMES = << >> /\ FAQS = << >> /\ INTENTS = << >>

(* the stored intent definitions having a pattern that occurs in the input, *)
(* compared case-insensitively                                             *)
IntentHits(input) ==
    { i \in 1..Len(INTENTS) :
        \E k \in 1..Len(INTENTS[i].patterns) :
            In(lower(INTENTS[i].patterns[k]), lower(input)) }

(* C6: when the input contains a pattern of some stored intent definition, *)
(* find_intent returns the name of the first such definition in catalog    *)
(* order, never a label of the built-in keyword ladder.                    *)
C6_StoredIntentFirst ==
    Replied("find_intent") =>
        (IntentHits(request.arg) # {} =>
            result = INTENTS[Least(IntentHits(request.arg))].name)

(* two stored intents of different names match an input in which a ladder *)
(* keyword of yet another label occurs; the first stored one is returned  *)
C6_Witness ==
    /\ Replied("find_intent")
    /\ Cardinality(IntentHits(request.arg)) >= 2
    /\ \E j \in IntentHits(request.arg) : INTENTS[j].name # result
    /\ FallbackIntent(lower(request.arg)) \notin {"unknown", result}
    /\ result = INTENTS[Least(IntentHits(request.arg))].name

(* the result of find_perfume is one of the products at the positions S *)
ReturnsOneOf(S) == \E i \in S : result = <<PERFUMES[i]>>

(* C7 as stated: every product whose exact name occurs in the input is the *)
(* product find_perfume returns; no product matched only by category or    *)
(* note is returned when some name occurs, and none matched only by note   *)
(* when some category occurs.                                              *)
C7_Original ==
    Replied("find_perfume") =>
        LET input == request.arg
        IN  /\ \A i \in 1..Len(PERFUMES) :
                    In(PERFUMES[i].name, input) => result = <<PERFUMES[i]>>
            /\ NameHits(input) # {} => ReturnsOneOf(NameHits(input))
            /\ CategoryHits(input) # {} =>
                    ReturnsOneOf(NameHits(input) \cup CategoryHits(input))

(* C7 amended: when some product's name occurs in the input, find_perfume *)
(* returns the first product in catalog order whose name occurs; the      *)
(* priority of name over category over note is as stated.                 *)
C7_Amended ==
    Replied("find_perfume") =>
        LET input == request.arg
        IN  /\ NameHits(input) # {} =>
                    result = <<PERFUMES[Least(NameHits(input))]>>
            /\ NameHits(input) # {} => ReturnsOneOf(NameHits(input))
            /\ CategoryHits(input) # {} =>
                    ReturnsOneOf(NameHits(input) \cup CategoryHits(input))

(* the names of two different products occur in the input and the first *)
(* of them in catalog order is returned                                 *)
C7_Witness ==
    /\ Replied("find_perfume")
    /\ \E i \in NameHits(request.arg) :
            /\ i # Least(NameHits(request.arg))
            /\ In(PERFUMES[i].name, request.arg)
            /\ PERFUMES[i].name # PERFUMES[Least(NameHits(request.arg))].name
    /\ result = <<PERFUMES[Least(NameHits(request.arg))]>>

(* C8: the FAQ Matcher returns none exactly when no stored question has   *)
(* one of its first three words in the input, otherwise the answer of the *)
(* first such FAQ in catalog order, and generate_response then replies    *)
(* with type faq.                                                         *)
C8_FaqMatcher ==
    /\ Replied("answer_faq") =>
            /\ result = None <=> FaqHits(request.arg) = {}
            /\ FaqHits(request.arg) # {} =>
                    result = <<FAQS[Least(FaqHits(request.arg))].answer>>
    /\ Replied("chat") =>
            (FaqHits(request.arg) # {} => result.ai_result.type = "faq")

BranchConfidence ==
    { <<"faq", 9>>, <<"perfume_info", 8>>, <<"greeting", 9>>,
      <<"recommendation", 8>>, <<"price_info", 7>>, <<"category_info", 8>>,
      <<"fallback", 3>> }

(* C9: every response of generate_response carries the confidence fixed *)
(* for its type (in tenths), so no other type or value occurs and the   *)
(* confidence lies in [0,1].                                            *)
C9_FixedConfidence ==
    Replied("chat") =>
        /\ <<result.ai_result.type, result.ai_result.confidence>> \in BranchConfidence
        /\ result.ai_result.confidence \in 0..10
        /\ result.body.confidence = result.ai_result.confidence

(* a fallback reply with confidence 0.3 *)
C9_Witness ==
    /\ Replied("chat")
    /\ result.ai_result.type = "fallback"
    /\ result.ai_result.confidence = 3
    /\ PERFUMES # << >>

RecommendSomething == "recommend something"

IsFallback(r) ==
    /\ r.type = "fallback"
    /\ r.confidence = 3
    /\ \E k \in 1..Len(FallbackResponses) : r.response = FallbackResponses[k]

(* C10: with no products and no matching FAQ, a message classified as    *)
(* recommendation, price_inquiry or category_query, "recommend           *)
(* something" among them, gets the fallback reply; with all three        *)
(* collections empty only greeting and fallback replies occur.           *)
C10_EmptyCatalogFallback ==
    (Replied("chat") /\ PERFUMES = << >> /\ FaqHits(request.arg) = {}) =>
        /\ find_intent(request.arg)
                \in {"recommendation", "price_inquiry", "category_query"}
             => IsFallback(result.ai_result)
        /\ request.arg = RecommendSomething => IsFallback(result.ai_result)
        /\ (FAQS = << >> /\ INTENTS = << >>) =>
                result.ai_result.type \in {"greeting", "fallback"}

(* the suggestions the rules of get_suggestions allow for a response of *)
(* type t to message m                                                  *)
SuggestionsFor(t, m, s) ==
    LET msg == lower(m)
        cats == { title(PERFUMES[k].category) :
                    k \in { j \in 1..Len(PERFUMES) :
                               get(PERFUMES[j], "category", "") # "" } }
        n == Min(3, Cardinality(cats))
        names == Min(3, Len(PERFUMES))
    IN  IF t = "perfume_info"
        THEN s = <<"Similar perfumes", "Price range", "Show all", "Recommendations">>
        ELSE IF t = "faq"
        THEN s = <<"More FAQs", "Perfume catalog", "Contact support">>
        ELSE IF In("recommend", msg) \/ In("suggest", msg)
        THEN /\ Len(s) = n + 2
             /\ \A k \in 1..n : s[k] \in cats
             /\ \A j, k \in 1..n : j # k => s[j] # s[k]
             /\ s[n + 1] = "Show all"
             /\ s[n + 2] = "Prices"
        ELSE IF In("price", msg) \/ In("how much", msg) \/ In("cost", msg)
        THEN /\ Len(s) = names + 2
             /\ \A k \in 1..names : s[k] = PERFUMES[k].name
             /\ s[names + 1] = "All prices"
             /\ s[names + 2] = "Budget options"
        ELSE s = <<"Recommend perfume", "Show all", "FAQs", "Help">>

CategoryListed(input) ==
    \E c \in 1..Len(CategoryWords), i \in 1..Len(PERFUMES) :
        /\ In(CategoryWords[c], lower(input))
        /\ get(PERFUMES[i], "category", "") = CategoryWords[c]

(* C12: generate_response never returns type category_info: when a word *)
(* of the category vocabulary occurs in the message and some product    *)
(* has exactly that category, the name or category phase of the Entity  *)
(* Matcher has a hit and the reply is of type faq or perfume_info; a    *)
(* category_query intent that reaches step 3 gets the fallback reply.   *)
C12_NoCategoryInfo ==
    Replied("chat") =>
        LET message == request.arg
            r == result.ai_result
        IN  /\ r.type # "category_info"
            /\ CategoryListed(message) =>
                    /\ NameHits(message) \cup CategoryHits(message) # {}
                    /\ r.type \in {"faq", "perfume_info"}
            /\ (find_intent(message) = "category_query"
                    /\ r.type \notin {"faq", "perfume_info"}) => IsFallback(r)

(* the message names a category some product has, is classified as      *)
(* category_query, matches no FAQ and no product name, and the reply is *)
(* the card of the first product of the category phase                  *)
C12_Witness ==
    /\ Replied("chat")
    /\ CategoryListed(request.arg)
    /\ find_intent(request.arg) = "category_query"
    /\ FaqHits(request.arg) = {}
    /\ NameHits(request.arg) = {}
    /\ result.ai_result.type = "perfume_info"
    /\ result.ai_result.perfume = PERFUMES[Least(CategoryHits(request.arg))]

====
